---------------------------- MODULE Spec2Model ----------------------------
(***************************************************************************)
(* Model of remove_big_objects (src/remove_big_objects.py).                *)
(*                                                                         *)
(* An array is a record [dtype, shape, data]; data maps every position of  *)
(* a 2-D grid to an element.  Elements of a "bool" array are BOOLEAN, of   *)
(* an "int" array integers, of a "float" array the numbers 0 and 1         *)
(* (standing for 0.0 and 1.0) and of a "str" array strings.  Array objects *)
(* live in a heap indexed by object identity, so that `out = ar` (the same *)
(* object) and `out = ar.copy()` (a new object) differ.                    *)
(***************************************************************************)
EXTENDS Integers, Sequences, FiniteSets

\* ---------------------------------------------------------------- bounds
\* Number of columns of the boolean input grids (2 rows).
Cols == 3
\* Largest label value of the integer input grids.
MaxLabel == 2
\* Largest max_size argument tried on the small grids.
MaxSize == 3

\* ---------------------------------------------------------------- arrays
Ids == 1..3

BoolShape == <<2, Cols>>
IntShape == <<2, 2>>
DocShape == <<3, 5>>

Pos(shape) == (1..shape[1]) \X (1..shape[2])

NoArray == [dtype |-> "none", shape |-> <<0, 0>>, data |-> [p \in {} |-> 0]]

Abs(x) == IF x < 0 THEN -x ELSE x

\* The array `a` of the docstring (lines 41-43), as bool.
DocRows == << <<0, 0, 0, 1, 0>>,
              <<1, 1, 1, 0, 0>>,
              <<1, 1, 1, 0, 1>> >>

DocExample ==
  [dtype |-> "bool", shape |-> DocShape,
   data |-> [p \in Pos(DocShape) |-> DocRows[p[1]][p[2]] = 1]]

BoolArrays ==
  {[dtype |-> "bool", shape |-> BoolShape, data |-> d] :
      d \in [Pos(BoolShape) -> BOOLEAN]}

IntArrays ==
  {[dtype |-> "int", shape |-> IntShape, data |-> d] :
      d \in [Pos(IntShape) -> (-1)..MaxLabel]}

FloatArrays ==
  {[dtype |-> "float", shape |-> IntShape, data |-> d] :
      d \in [Pos(IntShape) -> {0, 1}]}

StrArrays ==
  {[dtype |-> "str", shape |-> IntShape, data |-> d] :
      d \in [Pos(IntShape) -> {"a", "b"}]}

SmallInputs == BoolArrays \cup IntArrays \cup FloatArrays \cup StrArrays

\* max_size values tried on the docstring array (6 and 7 are the docstring's).
DocSizes == {0, 1, 5, 6, 7}

VARIABLES
  heap,          \* object id -> array contents (NoArray: not allocated)
  arg,           \* id of the array passed as `ar` to the latest call
  before,        \* contents of `ar` when the latest call was entered
  ret,           \* id of the returned array, 0 when nothing was returned
  raised,        \* "none", "TypeError" or "ValueError"
  warned,        \* whether warn() was called by the latest call
  max_size,
  connectivity,
  in_place,
  calls          \* number of calls made so far

vars == <<heap, arg, before, ret, raised, warned, max_size, connectivity,
          in_place, calls>>

\* ------------------------------------------------- _check_dtype_supported
\* TRUE when the check passes, FALSE when it raises TypeError.
check_dtype_float_ok(ar) == ar.dtype \in {"bool", "int", "float"}

check_dtype_supported(ar) == ar.dtype = "bool" \/ ar.dtype = "int"

\* ------------------------------------------------------- buffer selection
FreeId(h) == CHOOSE i \in Ids : h[i] = NoArray /\ \A j \in Ids : h[j] = NoArray => i <= j

SelectOutNoCopy(h, a, inplace) == [heap |-> h, out |-> a]

\* if in_place: out = ar  else: out = ar.copy()
SelectOut(h, a, inplace) ==
  IF inplace
    THEN [heap |-> h, out |-> a]
    ELSE LET n == FreeId(h)
         IN [heap |-> [h EXCEPT ![n] = h[a]], out |-> n]

\* ---------------------------------------------------------- labelling
\* ndi.generate_binary_structure(2, connectivity): the offsets of the
\* structuring element (squared distance from the centre <= connectivity).
generate_binary_structure(conn) ==
  {d \in {-1, 0, 1} \X {-1, 0, 1} : Abs(d[1]) + Abs(d[2]) <= conn}

RECURSIVE Grow(_, _, _)
Grow(S, fg, selem) ==
  LET N == S \cup {q \in fg : \E p \in S : <<q[1] - p[1], q[2] - p[2]>> \in selem}
  IN IF N = S THEN S ELSE Grow(N, fg, selem)

Raster(shape, p) == (p[1] - 1) * shape[2] + p[2]

\* ndi.label(ar, selem, output=ccs): 0 on background, and the components of
\* the foreground numbered 1, 2, ... in raster order of their first element.
label(a, selem) ==
  LET fg == {p \in Pos(a.shape) : a.data[p] = TRUE}
      first == [p \in fg |->
                  LET c == Grow({p}, fg, selem)
                  IN CHOOSE r \in {Raster(a.shape, q) : q \in c} :
                       \A q \in c : r <= Raster(a.shape, q)]
      firsts == {first[p] : p \in fg}
  IN [p \in Pos(a.shape) |->
        IF p \in fg THEN Cardinality({r \in firsts : r <= first[p]}) ELSE 0]

LabelMapAlways(ar, out, conn) ==
  label([ar EXCEPT !.data = [p \in DOMAIN ar.data |->
                               IF ar.dtype = "bool" THEN ar.data[p] ELSE ar.data[p] # 0]],
        generate_binary_structure(conn))

\* lines 69-74: the label map ccs.
LabelMap(ar, out, conn) ==
  IF out.dtype = "bool"
    THEN label(ar, generate_binary_structure(conn))
    ELSE out.data

\* ----------------------------------------------------------- histogram
HasNegative(ccs) == \E p \in DOMAIN ccs : ccs[p] < 0

MaxOf(ccs) == CHOOSE m \in {ccs[p] : p \in DOMAIN ccs} : \A p \in DOMAIN ccs : ccs[p] <= m

\* np.bincount(ccs.ravel()) for ccs without negative values: entry i + 1 of
\* the sequence is the number of elements equal to i, for i in 0..max(ccs).
bincount(ccs) ==
  [i \in 1..(MaxOf(ccs) + 1) |-> Cardinality({p \in DOMAIN ccs : ccs[p] = i - 1})]

WarnAtMostTwo(component_sizes) == Len(component_sizes) <= 2

\* line 83
WarnCond(component_sizes) == Len(component_sizes) = 2

too_big_ge(component_sizes, m) ==
  [i \in DOMAIN component_sizes |-> component_sizes[i] >= m]

\* line 87
too_big(component_sizes, m) ==
  [i \in DOMAIN component_sizes |-> component_sizes[i] > m]

too_big_mask_off_by_one(tb, ccs) ==
  [p \in DOMAIN ccs |-> tb[IF ccs[p] = 0 THEN Len(tb) ELSE ccs[p]]]

\* line 88: too_big[ccs]
too_big_mask(tb, ccs) == [p \in DOMAIN ccs |-> tb[ccs[p] + 1]]

Zero(dtype) == IF dtype = "bool" THEN FALSE ELSE 0

AssignOne(a, mask) ==
  [a EXCEPT !.data = [p \in DOMAIN a.data |->
                        IF mask[p] THEN (IF a.dtype = "bool" THEN TRUE ELSE 1)
                                   ELSE a.data[p]]]

\* line 89: out[too_big_mask] = 0
AssignZero(a, mask) ==
  [a EXCEPT !.data = [p \in DOMAIN a.data |->
                        IF mask[p] THEN Zero(a.dtype) ELSE a.data[p]]]

\* lines 69-91: the count-and-mask rule, on the selected buffer `out`.
CountAndMask(h, a, out, m, conn) ==
  LET ccs == LabelMap(h[a], h[out], conn)
  IN IF HasNegative(ccs)
       THEN [heap |-> h, ret |-> 0, raised |-> "ValueError", warned |-> FALSE]
       ELSE LET component_sizes == bincount(ccs)
                mask == too_big_mask(too_big(component_sizes, m), ccs)
            IN [heap |-> [h EXCEPT ![out] = AssignZero(@, mask)],
                ret |-> out, raised |-> "none",
                warned |-> WarnCond(component_sizes)]

\* lines 58-91
remove_big_objects(h, a, m, conn, inplace) ==
  IF ~check_dtype_supported(h[a])
    THEN [heap |-> h, ret |-> 0, raised |-> "TypeError", warned |-> FALSE]
    ELSE LET sel == SelectOut(h, a, inplace)
         IN IF m = 0
              THEN [heap |-> sel.heap, ret |-> sel.out, raised |-> "none",
                    warned |-> FALSE]
              ELSE CountAndMask(sel.heap, a, sel.out, m, conn)

\* ------------------------------------------------------------ behaviour
Init ==
  /\ \/ /\ \E A \in SmallInputs : heap = [i \in Ids |-> IF i = 1 THEN A ELSE NoArray]
        /\ max_size \in (-1)..MaxSize
     \/ /\ heap = [i \in Ids |-> IF i = 1 THEN DocExample ELSE NoArray]
        /\ max_size \in DocSizes
  /\ connectivity \in {1, 2}
  /\ in_place \in BOOLEAN
  /\ arg = 1
  /\ before = heap[1]
  /\ ret = 0
  /\ raised = "none"
  /\ warned = FALSE
  /\ calls = 0

Apply(a) ==
  LET r == remove_big_objects(heap, a, max_size, connectivity, in_place)
  IN /\ arg' = a
     /\ before' = heap[a]
     /\ heap' = r.heap
     /\ ret' = r.ret
     /\ raised' = r.raised
     /\ warned' = r.warned
     /\ calls' = calls + 1
     /\ UNCHANGED <<max_size, connectivity, in_place>>

\* The caller's call on the input array.
Call ==
  /\ calls = 0
  /\ Apply(1)

\* The function applied to its own output, with the same parameters.
Reapply ==
  /\ calls = 1
  /\ raised = "none"
  /\ Apply(ret)

Next == Call \/ Reapply

Spec == Init /\ [][Next]_vars

\* ------------------------------------------------------------ properties
\* A call has returned an array.
Returned == calls >= 1 /\ raised = "none"

\* Face adjacency (connectivity 1) or face-and-corner adjacency (connectivity 2).
Adjacent(p, q, conn) ==
  /\ p # q
  /\ Abs(p[1] - q[1]) <= 1
  /\ Abs(p[2] - q[2]) <= 1
  /\ Abs(p[1] - q[1]) + Abs(p[2] - q[2]) <= conn

Foreground(a) == {p \in Pos(a.shape) : a.data[p] = TRUE}

RECURSIVE Within(_, _, _, _)
\* The foreground positions joined to S by a path of at most k adjacent steps.
Within(S, fg, conn, k) ==
  LET T == S \cup {q \in fg : \E p \in S : Adjacent(p, q, conn)}
  IN IF k = 0 \/ T = S THEN S ELSE Within(T, fg, conn, k - 1)

\* The connected component of foreground position p of the boolean array a.
Component(a, p, conn) ==
  Within({p}, Foreground(a), conn, Cardinality(Foreground(a)))

ComponentSize(a, p, conn) == Cardinality(Component(a, p, conn))

\* Number of elements of a that carry the value v.
CountOf(a, v) == Cardinality({p \in Pos(a.shape) : a.data[p] = v})

BoolCall == calls >= 1 /\ before.dtype = "bool" /\ max_size >= 1

DocCall ==
  /\ calls = 1
  /\ before = DocExample
  /\ max_size = 6
  /\ connectivity = 1

\* The result the docstring shows (lines 46-48).
DocShown == << <<0, 0, 0, 0, 0>>,
               <<1, 1, 1, 0, 0>>,
               <<1, 1, 1, 0, 0>> >>

GeneralRule ==
  CountAndMask([i \in Ids |-> IF i = 1 THEN before ELSE NoArray], 1, 1,
               max_size, connectivity)

\* C3: with max_size = 0 the returned contents equal the input's, and that
\* is what the count-and-mask rule gives.
C3_ShortcutIsOptimization ==
  (calls >= 1 /\ max_size = 0 /\ before.dtype \in {"bool", "int"}) =>
    /\ raised = "none"
    /\ heap[ret].data = before.data
    /\ GeneralRule.raised = "none"
    /\ GeneralRule.heap[1].data = heap[ret].data

\* C4: with in_place the returned array is the argument itself; without, it
\* is another object and the argument's contents are those before the call.
C4_InPlaceIdentity ==
  Returned =>
    /\ in_place => ret = arg
    /\ ~in_place => (ret # arg /\ heap[arg] = before)

\* A copying call that cleared something in the copy.
C4_Witness ==
  /\ Returned
  /\ ~in_place
  /\ ret # arg
  /\ heap[ret] # before
  /\ heap[arg] = before

\* C5: an integer array with a negative element ends in ValueError, for
\* every max_size.
C5_NegativeRaises ==
  (calls >= 1 /\ before.dtype = "int" /\ HasNegative(before.data)) =>
    (raised = "ValueError" /\ ret = 0)

\* C6: an array that is neither bool nor int ends in TypeError, nothing is
\* returned, no buffer has been allocated and the argument is untouched.
C6_TypeErrorFirst ==
  (calls >= 1 /\ before.dtype \notin {"bool", "int"}) =>
    /\ raised = "TypeError"
    /\ ret = 0
    /\ heap[arg] = before
    /\ \A i \in Ids \ {arg} : heap[i] = NoArray

\* A float array, max_size = 0, copying call.
C6_Witness ==
  /\ calls = 1
  /\ before.dtype = "float"
  /\ max_size = 0
  /\ ~in_place
  /\ raised = "TypeError"

\* C7: the returned array has the argument's shape and dtype, every element
\* is the argument's or zero, and zero elements stay zero.
C7_ShapeDtypeBackground ==
  Returned =>
    /\ heap[ret].shape = before.shape
    /\ heap[ret].dtype = before.dtype
    /\ \A p \in Pos(before.shape) :
         /\ heap[ret].data[p] \in {before.data[p], Zero(before.dtype)}
         /\ before.data[p] = Zero(before.dtype) =>
              heap[ret].data[p] = Zero(before.dtype)

\* More background elements than max_size, something cleared, something kept.
C7_Witness ==
  /\ Returned
  /\ max_size >= 1
  /\ CountOf(before, Zero(before.dtype)) > max_size
  /\ \E p, q \in Pos(before.shape) :
       /\ before.data[p] # Zero(before.dtype)
       /\ heap[ret].data[p] = Zero(before.dtype)
       /\ heap[ret].data[q] # Zero(before.dtype)

IntCall ==
  /\ calls >= 1
  /\ before.dtype = "int"
  /\ ~HasNegative(before.data)
  /\ max_size # 0

ReachedHistogram ==
  /\ calls >= 1
  /\ before.dtype \in {"bool", "int"}
  /\ max_size # 0
  /\ before.dtype = "int" => ~HasNegative(before.data)

\* The largest label of the label map is 1.
LargestLabelIsOne ==
  IF before.dtype = "bool"
    THEN /\ Foreground(before) # {}
         /\ \A p, q \in Foreground(before) : q \in Component(before, p, connectivity)
    ELSE /\ \E p \in Pos(before.shape) : before.data[p] = 1
         /\ \A p \in Pos(before.shape) : before.data[p] <= 1

\* C9: a call that reaches the histogram warns exactly when the largest
\* label is 1, and returns an array either way.
C9_WarnIffTwoBuckets ==
  ReachedHistogram =>
    /\ raised = "none"
    /\ ret # 0
    /\ warned <=> LargestLabelIsOne

\* A warning, and the array still filtered and returned.
C9_Witness ==
  /\ ReachedHistogram
  /\ warned
  /\ raised = "none"
  /\ heap[ret] # before

\* C10: the function applied to its own output returns that output's
\* contents.
C10_Idempotent ==
  calls = 2 => (raised = "none" /\ heap[ret] = before)

\* Second call after a copying first call that cleared one boolean component
\* and kept another.
C10_Witness ==
  /\ calls = 2
  /\ raised = "none"
  /\ ~in_place
  /\ heap[1].dtype = "bool"
  /\ heap[1] # before
  /\ \E p \in Pos(before.shape) : before.data[p] = TRUE

=============================================================================
